---- MODULE Spec2Model ----
(***************************************************************************)
(* A model of gen.py: the pinyin annotator (format_pinyin), the CC-CEDICT  *)
(* loader (load_cedict), the note-list parser (parse_text) and the card    *)
(* builder (make_deck, format_hanzi, main).                                *)
(*                                                                         *)
(* A Python str is a sequence of one-character strings.  The combining     *)
(* code points U+0304, U+0301, U+030C, U+0300 and U+0308 are written       *)
(* "U+0304", ... : each stands for that one character.                     *)
(***************************************************************************)
EXTENDS Integers, Sequences, FiniteSets, TLC

VARIABLES
    pinyin,     \* format_pinyin: the argument
    result,     \* format_pinyin: <<the returned string>>, <<>> before the call
    d,          \* load_cedict: the dict d being built
    consumed,   \* load_cedict: the lines of the file read so far (history)
    loader,     \* load_cedict: "reading", or "raised" after an exception
    hanzi,      \* format_hanzi: the arguments <<simp, trads>>
    display,    \* format_hanzi: <<the returned string>>, <<>> before the
                \* call and after an AssertionError
    asserted,   \* format_hanzi: whether its assert has failed
    dictfile,   \* main: per run, the lines of cc_cedict.txt
    text,       \* main: the contents of the note-list file (sys.argv[1])
    run         \* main: per run, the local variables and the output

pinyinVars == <<pinyin, result>>

loadVars == <<d, consumed, loader>>

hanziVars == <<hanzi, display, asserted>>

buildVars == <<dictfile, text, run>>

vars == <<pinyinVars, loadVars, hanziVars, buildVars>>

(***************************************************************************)
(* Python str and list primitives used by gen.py.                          *)
(***************************************************************************)
Range(s) == {s[i] : i \in 1..Len(s)}

Min(S) == CHOOSE x \in S : \A y \in S : x <= y

UPPER == <<"A","B","C","D","E","F","G","H","I","J","K","L","M",
           "N","O","P","Q","R","S","T","U","V","W","X","Y","Z">>

LOWER == <<"a","b","c","d","e","f","g","h","i","j","k","l","m",
           "n","o","p","q","r","s","t","u","v","w","x","y","z">>

\* str.isupper() of one character
isupper(c) == c \in Range(UPPER)

\* str.lower()
lower(s) ==
    [i \in 1..Len(s) |->
        IF isupper(s[i])
        THEN LOWER[CHOOSE k \in 1..Len(UPPER) : UPPER[k] = s[i]]
        ELSE s[i]]

WHITESPACE == {" ", "\t", "\n", "\r"}

\* str.isspace(): non-empty and all whitespace
isspace(s) == s # <<>> /\ \A i \in 1..Len(s) : s[i] \in WHITESPACE

\* str.strip()
RECURSIVE lstrip(_)
lstrip(s) ==
    IF s # <<>> /\ Head(s) \in WHITESPACE THEN lstrip(Tail(s)) ELSE s

RECURSIVE rstrip(_)
rstrip(s) ==
    IF s # <<>> /\ s[Len(s)] \in WHITESPACE
    THEN rstrip(SubSeq(s, 1, Len(s) - 1))
    ELSE s

strip(s) == rstrip(lstrip(s))

\* str.find(c) for a one-character c: the 0-based index of the first
\* occurrence, or -1
find(s, c) ==
    IF \E i \in 1..Len(s) : s[i] = c
    THEN Min({i \in 1..Len(s) : s[i] = c}) - 1
    ELSE -1

\* str.startswith(prefix)
startswith(s, prefix) ==
    Len(prefix) <= Len(s) /\ SubSeq(s, 1, Len(prefix)) = prefix

\* str.replace(old, new) for one-character old and new
replace(s, old, new) ==
    [i \in 1..Len(s) |-> IF s[i] = old THEN new ELSE s[i]]

\* sep.join(parts)
RECURSIVE join(_, _)
join(sep, parts) ==
    IF parts = <<>> THEN <<>>
    ELSE IF Len(parts) = 1 THEN parts[1]
    ELSE parts[1] \o sep \o join(sep, Tail(parts))

\* str.split(): on runs of whitespace, no empty strings
RECURSIVE split_whitespace(_)
split_whitespace(s) ==
    IF s = <<>> THEN <<>>
    ELSE IF Head(s) \in WHITESPACE THEN split_whitespace(Tail(s))
    ELSE LET stops == {i \in 1..Len(s) : s[i] \in WHITESPACE}
             n == IF stops = {} THEN Len(s) ELSE Min(stops) - 1
         IN  <<SubSeq(s, 1, n)>> \o split_whitespace(SubSeq(s, n + 1, Len(s)))

\* str.split(sep) for a one-character sep: every separator splits, empty
\* strings are kept, and the result is never empty
RECURSIVE split(_, _)
split(s, sep) ==
    LET i == find(s, sep)
    IN  IF i = -1 THEN <<s>>
        ELSE <<SubSeq(s, 1, i)>> \o split(SubSeq(s, i + 2, Len(s)), sep)

\* str.split(sep, maxsplit) for a one-character sep
RECURSIVE split_max(_, _, _)
split_max(s, sep, maxsplit) ==
    LET i == find(s, sep)
    IN  IF maxsplit = 0 \/ i = -1 THEN <<s>>
        ELSE <<SubSeq(s, 1, i)>>
             \o split_max(SubSeq(s, i + 2, Len(s)), sep, maxsplit - 1)

(***************************************************************************)
(* The annotator.                                                          *)
(***************************************************************************)
ACCENTS == [c \in {"1", "2", "3", "4"} |->
    CASE c = "1" -> "U+0304"
      [] c = "2" -> "U+0301"
      [] c = "3" -> "U+030C"
      [] c = "4" -> "U+0300"]

\* ACCENT_TARGETS with "u" looked for before ":"
ACCENT_TARGETS_u_first == <<"a", "e", "i", "o", "u", ":">>

ACCENT_TARGETS == <<"a", "e", "i", "o", ":", "u">>

UMLAUT == "U+0308"

\* The first target, in the order of ACCENT_TARGETS, that occurs in the part
\* decides; the value is the index just after its first occurrence.
find_accent_index(part) ==
    LET lowerpart == lower(part)
        found == {k \in 1..Len(ACCENT_TARGETS) :
                     find(lowerpart, ACCENT_TARGETS[k]) # -1}
    IN  IF found = {} THEN -1
        ELSE find(lowerpart, ACCENT_TARGETS[Min(found)]) + 1

format_umlaut(part) == replace(part, ":", UMLAUT)

\* format_part dropping the digit of a part that has no accent target
format_part_drops_digit(part) ==
    LET last == part[Len(part)]
    IN  IF last \in {"1", "2", "3", "4"}
        THEN LET i == find_accent_index(part)
             IN  IF i # -1
                 THEN SubSeq(part, 1, i) \o <<ACCENTS[last]>>
                      \o SubSeq(part, i + 1, Len(part) - 1)
                 ELSE SubSeq(part, 1, Len(part) - 1)
        ELSE IF last = "5"
        THEN SubSeq(part, 1, Len(part) - 1)
        ELSE part

\* The body of format_pinyin's loop: what is appended to new_parts for one
\* part.  A part comes from str.split() and is never empty.
format_part(part) ==
    LET last == part[Len(part)]
    IN  IF last \in {"1", "2", "3", "4"}
        THEN LET i == find_accent_index(part)
             IN  IF i # -1
                 THEN SubSeq(part, 1, i) \o <<ACCENTS[last]>>
                      \o SubSeq(part, i + 1, Len(part) - 1)
                 ELSE part
        ELSE IF last = "5"
        THEN SubSeq(part, 1, Len(part) - 1)
        ELSE part

\* format_pinyin without the call of lower()
format_pinyin_no_lower(p) ==
    LET parts == split_whitespace(p)
        new_parts == [k \in 1..Len(parts) |-> format_part(parts[k])]
    IN  format_umlaut(join(<<" ">>, new_parts))

format_pinyin(p) ==
    LET parts == split_whitespace(lower(p))
        new_parts == [k \in 1..Len(parts) |-> format_part(parts[k])]
    IN  format_umlaut(join(<<" ">>, new_parts))

(***************************************************************************)
(* The annotator applied to one argument.                                  *)
(***************************************************************************)
MaxLen == 4

PinyinAlphabet == {"a", "e", "o", "u", ":", "m", "U", " ", "4", "5"}

PinyinExamples ==
    { <<"l","u",":","e","4">>,
      <<"z","h","o","n","g","1">>,
      <<"B","e","i","j","i","n","g","1">>,
      <<"b","e","i","j","i","n","g","1">>,
      <<"n","i","3"," ","h","a","o","3">>,
      <<"n","u",":","3">>,
      <<"m","2">>,
      <<"h","a","o","3",",">>,
      <<"L","u",":">> }

PinyinInputs ==
    UNION {[1..n -> PinyinAlphabet] : n \in 0..MaxLen} \cup PinyinExamples

BuildIdle ==
    /\ dictfile = <<>>
    /\ text = <<>>
    /\ run = <<>>

LoadIdle ==
    /\ d = <<>>
    /\ consumed = <<>>
    /\ loader = "reading"

PinyinIdle ==
    /\ pinyin = <<>>
    /\ result = <<>>

HanziIdle ==
    /\ hanzi = <<>>
    /\ display = <<>>
    /\ asserted = FALSE

InitPinyin ==
    /\ pinyin \in PinyinInputs
    /\ result = <<>>
    /\ LoadIdle
    /\ HanziIdle
    /\ BuildIdle

CallFormatPinyin ==
    /\ result = <<>>
    /\ result' = <<format_pinyin(pinyin)>>
    /\ UNCHANGED <<pinyin, loadVars, hanziVars, buildVars>>

NextPinyin == CallFormatPinyin

SpecPinyin == InitPinyin /\ [][NextPinyin]_vars

(***************************************************************************)
(* Properties of the annotator.                                            *)
(***************************************************************************)
DIGITS == {"0", "1", "2", "3", "4", "5", "6", "7", "8", "9"}

TONE_DIGITS == {"1", "2", "3", "4"}

TONE_MARKS == {ACCENTS[c] : c \in TONE_DIGITS}

Count(s, S) == Cardinality({i \in 1..Len(s) : s[i] \in S})

\* The tokens of the argument, as written by the caller
Tokens == split_whitespace(pinyin)

Returned == result # <<>>

\* A letter or the placeholder ":"
SyllableChar(c) == c \in Range(LOWER) \cup Range(UPPER) \cup {":"}

\* A syllable token: letters and ":", then one digit
IsSyllable(tok) ==
    /\ Len(tok) >= 2
    /\ tok[Len(tok)] \in DIGITS
    /\ \A i \in 1..(Len(tok) - 1) : SyllableChar(tok[i])

HasTarget(tok) ==
    \E i \in 1..Len(tok) : lower(tok)[i] \in {"a", "e", "i", "o", "u", ":"}

HasDigraph(tok) ==
    \E i \in 1..(Len(tok) - 1) : lower(tok)[i] = "u" /\ tok[i + 1] = ":"

\* C2 as stated: in a token ending in 1-4 that contains "u:" the tone mark
\* directly follows the diaeresis of a digraph (not a later "e"), and in one
\* with "o" and no "a", "e", "i" it directly follows the "o".
C2_Original ==
    (Returned /\ Len(Tokens) = 1 /\ Tokens[1][Len(Tokens[1])] \in TONE_DIGITS) =>
        LET tok == Tokens[1]
            out == result[1]
            mark == ACCENTS[tok[Len(tok)]]
        IN  /\ HasDigraph(tok) =>
                \E i \in 2..(Len(out) - 1) :
                    out[i - 1] = "u" /\ out[i] = UMLAUT /\ out[i + 1] = mark
            /\ ("o" \in Range(lower(tok))
                    /\ Range(lower(tok)) \cap {"a", "e", "i"} = {}) =>
                \E i \in 1..(Len(out) - 1) : out[i] = "o" /\ out[i + 1] = mark

\* The character the tone mark is anchored to: the first of a, e, i, o,
\* ":" and u that the token contains
Anchor(tok) ==
    LET low == Range(lower(tok))
    IN  CASE "a" \in low -> "a"
          [] "a" \notin low /\ "e" \in low -> "e"
          [] {"a", "e"} \cap low = {} /\ "i" \in low -> "i"
          [] {"a", "e", "i"} \cap low = {} /\ "o" \in low -> "o"
          [] {"a", "e", "i", "o"} \cap low = {} /\ ":" \in low -> ":"
          [] OTHER -> "u"

\* C2 amended: in a one-token argument ending in 1-4 the tone mark directly
\* follows the first occurrence of the token's anchor, the first of a, e, i,
\* o, ":", u that it contains, and the rest is the lowercased token without
\* its digit, each ":" turned into the diaeresis.  So in "lu:e4" the mark
\* follows the "e" (l u U+0308 e U+0300), in a token with "u:" and none of
\* a, e, i, o it directly follows the diaeresis of the first ":", and in
\* "zhong1" it directly follows the "o".
C2_Placement ==
    (Returned /\ Len(Tokens) = 1 /\ Tokens[1][Len(Tokens[1])] \in TONE_DIGITS
        /\ HasTarget(Tokens[1])) =>
        LET tok == Tokens[1]
            out == result[1]
            mark == ACCENTS[tok[Len(tok)]]
            p == Min({i \in 1..Len(tok) : lower(tok)[i] = Anchor(tok)})
            shown(c) == IF c = ":" THEN UMLAUT ELSE c
        IN  /\ Len(out) = Len(tok)
            /\ out[p + 1] = mark
            /\ \A i \in 1..p : out[i] = shown(lower(tok)[i])
            /\ \A i \in (p + 1)..(Len(tok) - 1) :
                   out[i + 1] = shown(lower(tok)[i])
            /\ Anchor(tok) = ":" => out[p] = UMLAUT
            /\ (Anchor(tok) = ":" /\ p > 1 /\ lower(tok)[p - 1] = "u") =>
                   out[p - 1] = "u"
            /\ pinyin = <<"l","u",":","e","4">> =>
                   out = <<"l", "u", "U+0308", "e", "U+0300">>
            /\ pinyin = <<"n","u",":","3">> =>
                   out = <<"n", "u", "U+0308", "U+030C">>
            /\ pinyin = <<"z","h","o","n","g","1">> =>
                   out = <<"z", "h", "o", "U+0304", "n", "g">>

C2_Witness ==
    /\ pinyin = <<"l","u",":","e","4">>
    /\ result = << <<"l", "u", "U+0308", "e", "U+0300">> >>

\* C3 as stated: a token whose last character is none of 1-5 is a token of
\* the output, character for character.
C3_Original ==
    Returned =>
        \A k \in 1..Len(Tokens) :
            Tokens[k][Len(Tokens[k])] \notin (TONE_DIGITS \cup {"5"}) =>
                /\ Tokens[k] \in Range(split_whitespace(result[1]))
                /\ Len(Tokens) = 1 => result[1] = Tokens[1]

\* C3 amended: a token whose last character is none of 1-5 is a token of the
\* output after lowercasing and with each ":" turned into the diaeresis,
\* and is otherwise unchanged (no tone mark added, no character dropped); a
\* token with no uppercase letter and no ":" is unchanged.
C3_PassThrough ==
    Returned =>
        \A k \in 1..Len(Tokens) :
            Tokens[k][Len(Tokens[k])] \notin (TONE_DIGITS \cup {"5"}) =>
                LET tok == Tokens[k]
                    want == [i \in 1..Len(tok) |->
                                IF tok[i] = ":" THEN UMLAUT
                                ELSE lower(<<tok[i]>>)[1]]
                IN  /\ want \in Range(split_whitespace(result[1]))
                    /\ Len(Tokens) = 1 => result[1] = want
                    /\ (":" \notin Range(tok) /\ \A i \in 1..Len(tok) : ~isupper(tok[i]))
                           => want = tok

C3_Witness ==
    /\ pinyin = <<"L", "u", ":">>
    /\ result = << <<"l", "u", "U+0308">> >>

(***************************************************************************)
(* The dictionary loader.  A hanzi is written as a capital letter.         *)
(***************************************************************************)
\* parse_rest raises: rest[0] on an empty string, the assert on "[", or the
\* unpacking of a split("]", 1) that found no "]"
parse_rest_raises(rest) ==
    IF rest = <<>> THEN TRUE
    ELSE IF rest[1] # "[" THEN TRUE
    ELSE Len(split_max(SubSeq(rest, 2, Len(rest)), "]", 1)) # 2

\* parse_rest: <<pinyin, definitions>>
parse_rest(rest) ==
    LET halves == split_max(SubSeq(rest, 2, Len(rest)), "]", 1)
        segments == split(halves[2], "/")
        kept == SelectSeq(segments, LAMBDA seg : seg # <<>> /\ ~isspace(seg))
    IN  <<halves[1], [k \in 1..Len(kept) |-> strip(kept[k])]>>

bad_prefixes ==
    << <<"v","a","r","i","a","n","t"," ","o","f"," ">>,
       <<"o","l","d"," ","v","a","r","i","a","n","t"," ","o","f"," ">>,
       <<"C","L",":">> >>

\* filter_definitions without the "CL:" prefix
filter_definitions_keeps_CL(definitions) ==
    SelectSeq(definitions,
              LAMBDA def : ~\E k \in 1..2 : startswith(def, bad_prefixes[k]))

filter_definitions(definitions) ==
    SelectSeq(definitions,
              LAMBDA def : ~\E k \in 1..Len(bad_prefixes) :
                               startswith(def, bad_prefixes[k]))

DictEntry(simp, trads, pinyins, definitions) ==
    [simp |-> simp, trads |-> trads, pinyins |-> pinyins,
     definitions |-> definitions]

\* The body of load_cedict's loop raises: the unpacking of line.split(" ", 2),
\* parse_rest, or unformatted_pinyin[0] on an empty pinyin
line_raises(line) ==
    LET fields == split_max(line, " ", 2)
    IN  IF startswith(line, <<"#">>) THEN FALSE
        ELSE IF Len(fields) # 3 THEN TRUE
        ELSE IF parse_rest_raises(fields[3]) THEN TRUE
        ELSE parse_rest(fields[3])[1] = <<>>

\* merge_entry appending the pinyin without looking for it in entry.pinyins
merge_entry_no_dedup(dd, simp, trad, pin, definitions) ==
    IF simp \notin DOMAIN dd
    THEN [k \in DOMAIN dd \cup {simp} |->
             IF k = simp
             THEN DictEntry(simp, <<trad>>, <<pin>>, definitions)
             ELSE dd[k]]
    ELSE LET entry == dd[simp]
         IN  [dd EXCEPT ![simp] =
                 DictEntry(entry.simp,
                           IF trad \notin Range(entry.trads)
                           THEN Append(entry.trads, trad) ELSE entry.trads,
                           Append(entry.pinyins, pin),
                           entry.definitions \o definitions)]

\* d after the merge of one line's trad, pinyin and definitions under simp
merge_entry(dd, simp, trad, pin, definitions) ==
    IF simp \notin DOMAIN dd
    THEN [k \in DOMAIN dd \cup {simp} |->
             IF k = simp
             THEN DictEntry(simp, <<trad>>, <<pin>>, definitions)
             ELSE dd[k]]
    ELSE LET entry == dd[simp]
         IN  [dd EXCEPT ![simp] =
                 DictEntry(entry.simp,
                           IF trad \notin Range(entry.trads)
                           THEN Append(entry.trads, trad) ELSE entry.trads,
                           IF pin \notin Range(entry.pinyins)
                           THEN Append(entry.pinyins, pin) ELSE entry.pinyins,
                           entry.definitions \o definitions)]

\* load_line that merges a line before it looks at what the filter left
load_line_merges_filtered(dd, line) ==
    IF startswith(line, <<"#">>) THEN dd
    ELSE LET fields == split_max(line, " ", 2)
             parsed == parse_rest(fields[3])
         IN  IF isupper(parsed[1][1]) THEN dd
             ELSE merge_entry(dd, fields[2], fields[1],
                              format_pinyin(parsed[1]),
                              filter_definitions(parsed[2]))

\* d after the body of load_cedict's loop has run for a line that does not
\* raise
load_line(dd, line) ==
    IF startswith(line, <<"#">>) THEN dd
    ELSE LET fields == split_max(line, " ", 2)
             trad == fields[1]
             simp == fields[2]
             parsed == parse_rest(fields[3])
             unformatted_pinyin == parsed[1]
             definitions == filter_definitions(parsed[2])
         IN  IF isupper(unformatted_pinyin[1]) THEN dd
             ELSE IF definitions = <<>> THEN dd
             ELSE merge_entry(dd, simp, trad,
                              format_pinyin(unformatted_pinyin), definitions)

(***************************************************************************)
(* The loader reading a file line by line.                                 *)
(***************************************************************************)
MaxLines == 3

DictLines ==
    { <<"K"," ","H"," ","[","n","i","3","]"," ","/","h","i","/","\n">>,
      <<"H"," ","H"," ","[","n","i","3","]"," ","/","y","o","/","h","i","/","\n">>,
      <<"K"," ","H"," ","[","n","I","3","]"," ","/","v","a","r","i","a","n","t"," ","o","f"," ","x","/","y","o","/","\n">>,
      <<"H"," ","H"," ","[","l","u",":","4","]"," ","/","C","L",":","x","/","\n">>,
      <<"K"," ","H"," ","[","N","i","3","]"," ","/","h","i","/","\n">>,
      <<"J"," ","H"," ","[","l","u",":","4","]"," ","/","h","i","/"," ","/","\n">>,
      <<"G"," ","G"," ","[","n","i","3","]"," ","/","o","l","d"," ","v","a","r","i","a","n","t"," ","o","f"," ","x","/","h","i","/","\n">>,
      <<"K"," ","G"," ","[","L","i","3","]"," ","/","v","a","r","i","a","n","t"," ","o","f"," ","x","/","\n">>,
      <<"#"," ","c","\n">>,
      <<"K"," ","H","\n">>,
      <<"K"," ","H"," ","n","i","3","]"," ","/","h","i","/","\n">>,
      <<"G"," ","G"," ","[","l","u",":","4","]"," ","/","o","l","d"," ","v","a","r","i","a","n","t"," ","o","f"," ","x","/","\n">> }

InitLoad ==
    /\ d = <<>>
    /\ consumed = <<>>
    /\ loader = "reading"
    /\ PinyinIdle
    /\ HanziIdle
    /\ BuildIdle

\* One pass of the loop "for line in f" that does not raise
ReadLine ==
    /\ loader = "reading"
    /\ Len(consumed) < MaxLines
    /\ \E line \in DictLines :
        /\ ~line_raises(line)
        /\ d' = load_line(d, line)
        /\ consumed' = Append(consumed, line)
    /\ UNCHANGED <<loader, pinyinVars, hanziVars, buildVars>>

\* One pass of the loop that raises: load_cedict ends without a dict
ReadLineRaises ==
    /\ loader = "reading"
    /\ Len(consumed) < MaxLines
    /\ \E line \in DictLines :
        /\ line_raises(line)
        /\ consumed' = Append(consumed, line)
    /\ loader' = "raised"
    /\ UNCHANGED <<d, pinyinVars, hanziVars, buildVars>>

\* End of file: return d
ReturnDict ==
    /\ loader = "reading"
    /\ loader' = "returned"
    /\ UNCHANGED <<d, consumed, pinyinVars, hanziVars, buildVars>>

NextLoad == ReadLine \/ ReadLineRaises \/ ReturnDict

SpecLoad == InitLoad /\ [][NextLoad]_vars

(***************************************************************************)
(* Properties of the loader.                                               *)
(***************************************************************************)
NOISE_PREFIXES ==
    { <<"v","a","r","i","a","n","t"," ","o","f"," ">>,
      <<"o","l","d"," ","v","a","r","i","a","n","t"," ","o","f"," ">>,
      <<"C","L",":">> }

IsNoise(gloss) == \E prefix \in NOISE_PREFIXES : startswith(gloss, prefix)

IsComment(line) == line # <<>> /\ line[1] = "#"

LineTrad(line) == split_max(line, " ", 2)[1]

LineSimp(line) == split_max(line, " ", 2)[2]

LinePinyin(line) == parse_rest(split_max(line, " ", 2)[3])[1]

LineGlosses(line) == parse_rest(split_max(line, " ", 2)[3])[2]

\* The glosses of a line that are not noise
LineKept(line) == SelectSeq(LineGlosses(line), LAMBDA g : ~IsNoise(g))

\* A comment, a proper noun, or a line with noise only
Filtered(line) ==
    IF IsComment(line) THEN TRUE
    ELSE IF isupper(LinePinyin(line)[1]) THEN TRUE
    ELSE \A i \in 1..Len(LineGlosses(line)) : IsNoise(LineGlosses(line)[i])

\* The lines read so far that were neither filtered nor the one that raised
Surviving ==
    SelectSeq(consumed, LAMBDA line : ~line_raises(line) /\ ~Filtered(line))

SurvivingFor(simp) == SelectSeq(Surviving, LAMBDA line : LineSimp(line) = simp)

\* C4: every record has a gloss, none of its glosses starts with a noise
\* prefix, and a headword has a record only if a line read for it was no
\* comment, no proper noun and had a gloss that is not noise.
C4_RecordsHaveCleanGlosses ==
    \A simp \in DOMAIN d :
        /\ d[simp].definitions # <<>>
        /\ \A i \in 1..Len(d[simp].definitions) :
               /\ d[simp].definitions[i] # <<>>
               /\ ~IsNoise(d[simp].definitions[i])
        /\ \E n \in 1..Len(consumed) :
               LET line == consumed[n]
               IN  /\ ~IsComment(line)
                   /\ ~line_raises(line)
                   /\ LineSimp(line) = simp
                   /\ ~isupper(LinePinyin(line)[1])
                   /\ \E i \in 1..Len(LineGlosses(line)) :
                          ~IsNoise(LineGlosses(line)[i])

\* A line with a noise gloss and another gloss has been merged, and a line
\* with noise only has been read for a headword that has no record
C4_Witness ==
    /\ consumed = << <<"G"," ","G"," ","[","n","i","3","]"," ","/","o","l","d"," ","v","a","r","i","a","n","t"," ","o","f"," ","x","/","h","i","/","\n">>,
                     <<"H"," ","H"," ","[","l","u",":","4","]"," ","/","C","L",":","x","/","\n">> >>
    /\ DOMAIN d = {<<"G">>}
    /\ d[<<"G">>].definitions = << <<"h", "i">> >>

\* C5: reading a comment, a proper noun or a line with noise only leaves the
\* dict as it was.
C5_FilteredLineChangesNothing ==
    [][(Len(consumed') = Len(consumed) + 1
            /\ ~line_raises(consumed'[Len(consumed')])
            /\ Filtered(consumed'[Len(consumed')]))
        => d' = d]_vars

\* The last line read was a proper noun for a headword that has a record
C5_Witness ==
    /\ Len(consumed) = 2
    /\ consumed[2] = <<"K"," ","H"," ","[","N","i","3","]"," ","/","h","i","/","\n">>
    /\ <<"H">> \in DOMAIN d

\* The distinct elements of a sequence, each at its first occurrence
RECURSIVE FirstOccurrences(_)
FirstOccurrences(s) ==
    IF s = <<>> THEN <<>>
    ELSE LET front == FirstOccurrences(SubSeq(s, 1, Len(s) - 1))
         IN  IF s[Len(s)] \in Range(front) THEN front
             ELSE Append(front, s[Len(s)])

RECURSIVE Concat(_)
Concat(ss) == IF ss = <<>> THEN <<>> ELSE Head(ss) \o Concat(Tail(ss))

NoDuplicates(s) == \A i, j \in 1..Len(s) : s[i] = s[j] => i = j

\* C6: the records are those of the headwords of the surviving lines; a
\* record's headword is its key, its variants and pronunciations hold no
\* duplicate and are in order of first contribution, and its glosses are the
\* kept glosses of the surviving lines of its headword, in line order, with
\* repetitions.
C6_MergedRecords ==
    /\ DOMAIN d = {LineSimp(Surviving[n]) : n \in 1..Len(Surviving)}
    /\ \A simp \in DOMAIN d :
        LET lines == SurvivingFor(simp)
        IN  /\ d[simp].simp = simp
            /\ NoDuplicates(d[simp].trads)
            /\ NoDuplicates(d[simp].pinyins)
            /\ d[simp].trads =
                   FirstOccurrences([n \in 1..Len(lines) |-> LineTrad(lines[n])])
            /\ d[simp].pinyins =
                   FirstOccurrences([n \in 1..Len(lines) |->
                                        format_pinyin(LinePinyin(lines[n]))])
            /\ d[simp].definitions =
                   Concat([n \in 1..Len(lines) |-> LineKept(lines[n])])

\* Three lines merged under one headword: a repeated variant, a repeated
\* pronunciation (after annotation) and a repeated gloss
C6_Witness ==
    /\ consumed = << <<"K"," ","H"," ","[","n","i","3","]"," ","/","h","i","/","\n">>,
                     <<"H"," ","H"," ","[","n","i","3","]"," ","/","y","o","/","h","i","/","\n">>,
                     <<"K"," ","H"," ","[","n","I","3","]"," ","/","v","a","r","i","a","n","t"," ","o","f"," ","x","/","y","o","/","\n">> >>
    /\ d[<<"H">>].trads = << <<"K">>, <<"H">> >>
    /\ d[<<"H">>].pinyins = << <<"n", "i", "U+030C">> >>
    /\ d[<<"H">>].definitions =
           << <<"h", "i">>, <<"y", "o">>, <<"h", "i">>, <<"y", "o">> >>

(***************************************************************************)
(* The display field.                                                      *)
(***************************************************************************)
HR_SPAN == <<"<","h","r",">","<","s","p","a","n"," ","c","l","a","s","s","=","\"","t","r","a","d","i","t","i","o","n","a","l","\"",">">>

END_SPAN == <<"<","/","s","p","a","n",">">>

\* The assert of format_hanzi fails: some trad that is not skipped has
\* another length than simp
format_hanzi_raises(simp, trads) ==
    \E k \in 1..Len(trads) : trads[k] # simp /\ Len(simp) # Len(trads[k])

\* dashed showing simp's character where the two differ
dashed_shows_simp(simp, trad) ==
    [i \in 1..Len(simp) |-> IF simp[i] = trad[i] THEN "-" ELSE simp[i]]

\* The string "dashed" built by the inner loop, for a trad of simp's length
dashed(simp, trad) ==
    [i \in 1..Len(simp) |-> IF simp[i] = trad[i] THEN "-" ELSE trad[i]]

\* format_hanzi when its assert holds
format_hanzi(simp, trads) ==
    LET others == SelectSeq(trads, LAMBDA trad : trad # simp)
        dashed_trads == [k \in 1..Len(others) |-> dashed(simp, others[k])]
    IN  IF dashed_trads # <<>>
        THEN simp \o HR_SPAN \o join(<<" ", "/", " ">>, dashed_trads)
             \o END_SPAN
        ELSE simp

(***************************************************************************)
(* format_hanzi applied to one pair of arguments.                          *)
(***************************************************************************)
MaxHanzi == 2

MaxTrads == 2

HanziAlphabet == {"A", "K"}

SimpInputs == UNION {[1..n -> HanziAlphabet] : n \in 0..MaxHanzi}

TradInputs == UNION {[1..n -> HanziAlphabet] : n \in 1..MaxHanzi}

InitHanzi ==
    /\ hanzi \in SimpInputs \X UNION {[1..n -> TradInputs] : n \in 0..MaxTrads}
    /\ display = <<>>
    /\ asserted = FALSE
    /\ PinyinIdle
    /\ LoadIdle
    /\ BuildIdle

CallFormatHanzi ==
    /\ display = <<>>
    /\ ~asserted
    /\ ~format_hanzi_raises(hanzi[1], hanzi[2])
    /\ display' = <<format_hanzi(hanzi[1], hanzi[2])>>
    /\ UNCHANGED <<hanzi, asserted, pinyinVars, loadVars, buildVars>>

CallFormatHanziRaises ==
    /\ display = <<>>
    /\ ~asserted
    /\ format_hanzi_raises(hanzi[1], hanzi[2])
    /\ asserted' = TRUE
    /\ UNCHANGED <<hanzi, display, pinyinVars, loadVars, buildVars>>

NextHanzi == CallFormatHanzi \/ CallFormatHanziRaises

SpecHanzi == InitHanzi /\ [][NextHanzi]_vars

(***************************************************************************)
(* Properties of format_hanzi.                                             *)
(***************************************************************************)
HanziCalled == display # <<>> \/ asserted

\* The variants that are not the headword itself
Differing == SelectSeq(hanzi[2], LAMBDA trad : trad # hanzi[1])

\* Whether s is simp-long and shows "-" where trad agrees with simp and
\* trad's character where it does not
IsDiffOf(s, simp, trad) ==
    /\ Len(s) = Len(trad)
    /\ Len(s) = Len(simp)
    /\ \A i \in 1..Len(s) :
           /\ simp[i] = trad[i] => s[i] = "-"
           /\ simp[i] # trad[i] => s[i] = trad[i]

\* The pieces of s between successive " / "
RECURSIVE SplitSlash(_)
SplitSlash(s) ==
    LET at == {i \in 1..(Len(s) - 2) : SubSeq(s, i, i + 2) = <<" ", "/", " ">>}
    IN  IF at = {} THEN <<s>>
        ELSE <<SubSeq(s, 1, Min(at) - 1)>>
             \o SplitSlash(SubSeq(s, Min(at) + 3, Len(s)))

\* C9: with no variant other than the headword the display field is the
\* headword; with differing variants all of the headword's length it is the
\* headword, the span opening, one diffed string per differing variant in
\* variant order joined by " / ", and the span end; a differing variant of
\* another length fails the assert and no display field is made.
C9_DisplayField ==
    HanziCalled =>
        LET simp == hanzi[1]
        IN  /\ Differing = <<>> => (~asserted /\ display = <<simp>>)
            /\ (\E k \in 1..Len(Differing) : Len(Differing[k]) # Len(simp))
                   => (asserted /\ display = <<>>)
            /\ (Differing # <<>>
                    /\ \A k \in 1..Len(Differing) : Len(Differing[k]) = Len(simp))
                   => /\ ~asserted
                      /\ display # <<>>
                      /\ LET out == display[1]
                             n == Len(simp) + Len(HR_SPAN)
                             diffs == SplitSlash(
                                 SubSeq(out, n + 1, Len(out) - Len(END_SPAN)))
                         IN  /\ SubSeq(out, 1, Len(simp)) = simp
                             /\ SubSeq(out, Len(simp) + 1, n) = HR_SPAN
                             /\ SubSeq(out, Len(out) - Len(END_SPAN) + 1,
                                       Len(out)) = END_SPAN
                             /\ Len(diffs) = Len(Differing)
                             /\ \A k \in 1..Len(diffs) :
                                    IsDiffOf(diffs[k], simp, Differing[k])

\* "AK" with the variants "AK" and "KK": the first is skipped, the second
\* shown as "K-"
C9_Witness ==
    /\ hanzi = << <<"A", "K">>, << <<"A", "K">>, <<"K", "K">> >> >>
    /\ display = << <<"A", "K">> \o HR_SPAN \o <<"K", "-">> \o END_SPAN >>

(***************************************************************************)
(* The note-list parser.                                                   *)
(***************************************************************************)
\* str.splitlines(), for the line end "\n"
splitlines(s) ==
    LET pieces == split(s, "\n")
    IN  IF pieces[Len(pieces)] = <<>>
        THEN SubSeq(pieces, 1, Len(pieces) - 1)
        ELSE pieces

split_line(line) ==
    LET parts == split(line, "|")
    IN  [k \in 1..Len(parts) |-> strip(parts[k])]

DECIMAL == <<"0", "1", "2", "3", "4", "5", "6", "7", "8", "9">>

\* int(s) raises ValueError: s is not an optional sign and decimal digits
int_raises(s) ==
    LET digits == IF s # <<>> /\ s[1] \in {"+", "-"} THEN Tail(s) ELSE s
    IN  digits = <<>> \/ \E i \in 1..Len(digits) : digits[i] \notin Range(DECIMAL)

\* The value of a string of decimal digits
RECURSIVE decimal_value(_)
decimal_value(digits) ==
    IF digits = <<>> THEN 0
    ELSE 10 * decimal_value(SubSeq(digits, 1, Len(digits) - 1))
         + (CHOOSE v \in 0..9 : DECIMAL[v + 1] = digits[Len(digits)])

\* int(s)
int(s) ==
    IF s[1] = "-" THEN 0 - decimal_value(Tail(s))
    ELSE IF s[1] = "+" THEN decimal_value(Tail(s))
    ELSE decimal_value(s)

\* parse_text raises: lines[0] of an empty text, the unpacking of the first
\* line, or int(deck_id_str)
parse_text_raises(txt) ==
    LET lines == splitlines(txt)
    IN  IF lines = <<>> THEN TRUE
        ELSE IF Len(split_line(lines[1])) # 2 THEN TRUE
        ELSE int_raises(split_line(lines[1])[2])

\* parse_text leaving out the lines that have neither one part nor three
parse_text_drops_other_arity(txt) ==
    LET lines == splitlines(txt)
        first == split_line(lines[1])
        kept == SelectSeq(Tail(lines),
                          LAMBDA line : strip(line) # <<>>
                                        /\ ~startswith(line, <<"#">>)
                                        /\ Len(split_line(line)) \in {1, 3})
    IN  <<first[1], int(first[2]), [k \in 1..Len(kept) |-> split_line(kept[k])]>>

\* parse_text: <<deck_name, deck_id, notes>>
parse_text(txt) ==
    LET lines == splitlines(txt)
        first == split_line(lines[1])
        kept == SelectSeq(Tail(lines),
                          LAMBDA line : strip(line) # <<>>
                                        /\ ~startswith(line, <<"#">>))
    IN  <<first[1], int(first[2]), [k \in 1..Len(kept) |-> split_line(kept[k])]>>

(***************************************************************************)
(* The card builder.                                                       *)
(***************************************************************************)
\* load_cedict raises on some line of the file
load_cedict_raises(lines) == \E n \in 1..Len(lines) : line_raises(lines[n])

RECURSIVE load_lines(_, _)
load_lines(dd, lines) ==
    IF lines = <<>> THEN dd
    ELSE load_lines(load_line(dd, Head(lines)), Tail(lines))

\* load_cedict for a file none of whose lines raises
load_cedict(lines) == load_lines(<<>>, lines)

\* genanki.guid_for: a fixed function of its argument and of nothing else
guid_for(field) == <<"guid_for", field>>

\* An EasyStepsNote: its fields, and its guid property
EasyStepsNote(fields) == [fields |-> fields, guid |-> guid_for(fields[1])]

\* make_model: the model id
make_model(deck_id) == deck_id + 1

\* The pass of make_deck's loop for this note prints NEEDS DEFINITION
note_needs_definition(cedict, note) ==
    Len(note) = 1 /\ note[1] \notin DOMAIN cedict

\* The pass of make_deck's loop for this note raises: the assert on
\* len(note), or the assert of format_hanzi
note_raises(cedict, note) ==
    IF Len(note) = 1
    THEN IF note[1] \in DOMAIN cedict
         THEN format_hanzi_raises(note[1], cedict[note[1]].trads)
         ELSE FALSE
    ELSE Len(note) # 3

\* Which function raises
note_raises_in(note) == IF Len(note) = 1 THEN "format_hanzi" ELSE "make_deck"

\* note_fields with the display string as the first field
note_fields_display_first(cedict, note) ==
    LET simp == note[1]
        trads == IF Len(note) = 1 THEN cedict[simp].trads ELSE <<>>
        pinyins == IF Len(note) = 1 THEN cedict[simp].pinyins
                   ELSE <<format_pinyin(note[2])>>
        definitions == IF Len(note) = 1 THEN cedict[simp].definitions
                       ELSE <<note[3]>>
    IN  << format_hanzi(simp, trads),
           format_hanzi(simp, trads),
           join(<<",", " ">>, pinyins),
           join(<<" ", "/", " ">>, definitions) >>

\* The list "fields" of a note that is in the dict or has three parts
note_fields(cedict, note) ==
    LET simp == note[1]
        trads == IF Len(note) = 1 THEN cedict[simp].trads ELSE <<>>
        pinyins == IF Len(note) = 1 THEN cedict[simp].pinyins
                   ELSE <<format_pinyin(note[2])>>
        definitions == IF Len(note) = 1 THEN cedict[simp].definitions
                       ELSE <<note[3]>>
    IN  << simp,
           format_hanzi(simp, trads),
           join(<<",", " ">>, pinyins),
           join(<<" ", "/", " ">>, definitions) >>

\* after_needs_definition leaving the loop (break for continue)
after_needs_definition_breaks(st, simp) ==
    [st EXCEPT !.stdout = Append(@, <<"NEEDS DEFINITION:", simp>>),
               !.i = Len(st.notes)]

\* The run after print("NEEDS DEFINITION:", simp) and continue
after_needs_definition(st, simp) ==
    [st EXCEPT !.stdout = Append(@, <<"NEEDS DEFINITION:", simp>>),
               !.i = @ + 1]

(***************************************************************************)
(* main, run twice on the same note list, each time with its own           *)
(* cc_cedict.txt; the second run starts when the first has ended.          *)
(***************************************************************************)
MaxNotes == 2

Runs == {1, 2}

DictFiles ==
    { << <<"K"," ","H"," ","[","n","i","3","]"," ","/","h","i","/","\n">> >>,
      << <<"H"," ","H"," ","[","n","i","3","]"," ","/","y","o","/","h","i","/","\n">>,
         <<"J"," ","H"," ","[","l","u",":","4","]"," ","/","h","i","/"," ","/","\n">> >>,
      << <<"K"," ","H"," ","[","n","i","3","]"," ","/","h","i","/","\n">>,
         <<"G"," ","G"," ","[","n","i","3","]"," ","/","o","l","d"," ","v","a","r","i","a","n","t"," ","o","f"," ","x","/","h","i","/","\n">> >>,
      << <<"K","K"," ","H"," ","[","n","i","3","]"," ","/","h","i","/","\n">> >>,
      << <<"K"," ","H"," ","[","n","i","3","]"," ","/","h","i","/","\n">>,
         <<"K"," ","H","\n">> >> }

NoteLines ==
    { <<"H">>,
      <<"G">>,
      <<"Q"," ","|"," ","l","u",":","4"," ","|"," ","y","o">>,
      <<"H","|","n","i","3">>,
      <<"#"," ","c">>,
      <<>> }

\* A text: a first line and the note lines, each ended by "\n"
RECURSIVE TextOf(_, _)
TextOf(first, lines) ==
    IF lines = <<>> THEN first \o <<"\n">>
    ELSE TextOf(first, SubSeq(lines, 1, Len(lines) - 1))
         \o lines[Len(lines)] \o <<"\n">>

Texts ==
    {TextOf(<<"D"," ","|"," ","1">>, lines) :
        lines \in UNION {[1..n -> NoteLines] : n \in 0..MaxNotes}}
    \cup { TextOf(<<"D"," ","|"," ","1">>, <<<<"G">>, <<"Q"," ","|"," ","l","u",":","4"," ","|"," ","y","o">>, <<"H">>>>),
           TextOf(<<"D"," ","|"," ","1">>, <<<<"H">>, <<"G">>, <<"H","|","n","i","3">>>>),
           TextOf(<<"D","|","x">>, <<<<"H">>>>),
           TextOf(<<"D">>, <<<<"H">>>>),
           <<>> }

Ended(st) == st.pc \in {"done", "aborted"}

\* Run r is the one being executed
Current(r) == ~Ended(run[r]) /\ \A q \in Runs : q < r => Ended(run[q])

Started ==
    [pc |-> "load", cedict |-> <<>>, deck_name |-> <<>>, deck_id |-> 0,
     model_id |-> 0, notes |-> <<>>, i |-> 0, deck |-> <<>>,
     stdout |-> <<>>, apkg |-> <<>>, raised_in |-> ""]

InitBuild ==
    /\ dictfile \in [Runs -> DictFiles]
    /\ text \in Texts
    /\ run = [r \in Runs |-> Started]
    /\ PinyinIdle
    /\ LoadIdle
    /\ HanziIdle

\* cedict = load_cedict()
LoadCedict(r) ==
    /\ Current(r)
    /\ run[r].pc = "load"
    /\ ~load_cedict_raises(dictfile[r])
    /\ run' = [run EXCEPT ![r].cedict = load_cedict(dictfile[r]),
                          ![r].pc = "parse"]
    /\ UNCHANGED <<dictfile, text, pinyinVars, loadVars, hanziVars>>

LoadCedictRaises(r) ==
    /\ Current(r)
    /\ run[r].pc = "load"
    /\ load_cedict_raises(dictfile[r])
    /\ run' = [run EXCEPT ![r].pc = "aborted", ![r].raised_in = "load_cedict"]
    /\ UNCHANGED <<dictfile, text, pinyinVars, loadVars, hanziVars>>

\* deck_name, deck_id, notes = parse_text(text), and make_deck up to its loop
ParseText(r) ==
    /\ Current(r)
    /\ run[r].pc = "parse"
    /\ ~parse_text_raises(text)
    /\ LET parsed == parse_text(text)
       IN  run' = [run EXCEPT ![r].deck_name = parsed[1],
                              ![r].deck_id = parsed[2],
                              ![r].model_id = make_model(parsed[2]),
                              ![r].notes = parsed[3],
                              ![r].pc = "build"]
    /\ UNCHANGED <<dictfile, text, pinyinVars, loadVars, hanziVars>>

ParseTextRaises(r) ==
    /\ Current(r)
    /\ run[r].pc = "parse"
    /\ parse_text_raises(text)
    /\ run' = [run EXCEPT ![r].pc = "aborted", ![r].raised_in = "parse_text"]
    /\ UNCHANGED <<dictfile, text, pinyinVars, loadVars, hanziVars>>

\* One pass of make_deck's loop that adds a note to the deck
AddNote(r) ==
    /\ Current(r)
    /\ run[r].pc = "build"
    /\ run[r].i < Len(run[r].notes)
    /\ LET note == run[r].notes[run[r].i + 1]
       IN  /\ ~note_needs_definition(run[r].cedict, note)
           /\ ~note_raises(run[r].cedict, note)
           /\ run' = [run EXCEPT
                  ![r].deck = Append(@,
                      EasyStepsNote(note_fields(run[r].cedict, note))),
                  ![r].i = @ + 1]
    /\ UNCHANGED <<dictfile, text, pinyinVars, loadVars, hanziVars>>

\* One pass of the loop for a headword that is not in the dict
NeedsDefinition(r) ==
    /\ Current(r)
    /\ run[r].pc = "build"
    /\ run[r].i < Len(run[r].notes)
    /\ LET note == run[r].notes[run[r].i + 1]
       IN  /\ note_needs_definition(run[r].cedict, note)
           /\ run' = [run EXCEPT ![r] = after_needs_definition(@, note[1])]
    /\ UNCHANGED <<dictfile, text, pinyinVars, loadVars, hanziVars>>

\* One pass of the loop in which an assert fails
NoteRaises(r) ==
    /\ Current(r)
    /\ run[r].pc = "build"
    /\ run[r].i < Len(run[r].notes)
    /\ LET note == run[r].notes[run[r].i + 1]
       IN  /\ note_raises(run[r].cedict, note)
           /\ run' = [run EXCEPT ![r].pc = "aborted",
                                 ![r].raised_in = note_raises_in(note)]
    /\ UNCHANGED <<dictfile, text, pinyinVars, loadVars, hanziVars>>

\* make_deck returns; the package is written and "created" is printed
WritePackage(r) ==
    /\ Current(r)
    /\ run[r].pc = "build"
    /\ run[r].i = Len(run[r].notes)
    /\ run' = [run EXCEPT ![r].apkg = <<run[r].deck>>,
                          ![r].stdout = Append(@, <<"created">>),
                          ![r].pc = "done"]
    /\ UNCHANGED <<dictfile, text, pinyinVars, loadVars, hanziVars>>

NextBuild ==
    \E r \in Runs :
        \/ LoadCedict(r)
        \/ LoadCedictRaises(r)
        \/ ParseText(r)
        \/ ParseTextRaises(r)
        \/ AddNote(r)
        \/ NeedsDefinition(r)
        \/ NoteRaises(r)
        \/ WritePackage(r)

SpecBuild == InitBuild /\ [][NextBuild]_vars

(***************************************************************************)
(* Properties of the card builder and of main.                             *)
(***************************************************************************)
\* make_deck has been entered
InMakeDeck(st) ==
    \/ st.pc \in {"build", "done"}
    \/ st.pc = "aborted" /\ st.raised_in \in {"make_deck", "format_hanzi"}

\* make_deck has returned or raised
MakeDeckEnded(st) == InMakeDeck(st) /\ st.pc # "build"

IsLookup(note) == Len(note) = 1

IsManual(note) == Len(note) = 3

WellFormed(notes) ==
    \A k \in 1..Len(notes) : IsLookup(notes[k]) \/ IsManual(notes[k])

\* The notes that are to produce a card: the manual ones and the lookups of
\* a headword the dict has
Emitting(cedict, notes) ==
    SelectSeq(notes, LAMBDA note :
        IsManual(note) \/ (IsLookup(note) /\ note[1] \in DOMAIN cedict))

\* The lookups of a headword the dict does not have
Absent(cedict, notes) ==
    SelectSeq(notes, LAMBDA note : IsLookup(note) /\ note[1] \notin DOMAIN cedict)

Headwords(notes) == [k \in 1..Len(notes) |-> notes[k][1]]

Ids(deck) == [k \in 1..Len(deck) |-> deck[k].fields[1]]

Guids(deck) == [k \in 1..Len(deck) |-> deck[k].guid]

Diagnostics(st) ==
    LET printed == SelectSeq(st.stdout, LAMBDA l : l[1] = "NEEDS DEFINITION:")
    IN  [k \in 1..Len(printed) |-> printed[k][2]]

\* A lookup of a record one of whose variants differs from the headword and
\* has another length
HasOddVariant(cedict, note) ==
    /\ IsLookup(note)
    /\ note[1] \in DOMAIN cedict
    /\ \E k \in 1..Len(cedict[note[1]].trads) :
           /\ cedict[note[1]].trads[k] # note[1]
           /\ Len(cedict[note[1]].trads[k]) # Len(note[1])

\* C7 as stated: whatever the dict, when make_deck has ended on a list of
\* lookup and manual notes, the cards are those of the manual notes and of
\* the lookups the dict has, in note order, and one diagnostic was printed
\* for each lookup it does not have.
C7_Original ==
    \A r \in Runs :
        (MakeDeckEnded(run[r]) /\ WellFormed(run[r].notes)) =>
            /\ Ids(run[r].deck) =
                   Headwords(Emitting(run[r].cedict, run[r].notes))
            /\ Diagnostics(run[r]) =
                   Headwords(Absent(run[r].cedict, run[r].notes))

\* C7 amended: on a list of lookup and manual notes, after i passes of the
\* loop the cards are those of the manual notes and of the lookups the dict
\* has among the first i notes, in note order, and the diagnostics name the
\* lookups it does not have among them; make_deck returns only after all
\* notes, and it stops early only at a lookup of a record with a differing
\* variant of another length, where the assert of format_hanzi fails.  So
\* for a dict in which no looked-up record has such a variant every note is
\* handled, and a missing headword never stops the later ones.
C7_OneCardPerResolvedNote ==
    \A r \in Runs :
        (InMakeDeck(run[r]) /\ WellFormed(run[r].notes)) =>
            LET st == run[r]
                seen == SubSeq(st.notes, 1, st.i)
            IN  /\ Ids(st.deck) = Headwords(Emitting(st.cedict, seen))
                /\ Diagnostics(st) = Headwords(Absent(st.cedict, seen))
                /\ st.pc = "done" =>
                       /\ st.i = Len(st.notes)
                       /\ st.apkg = <<st.deck>>
                /\ st.pc = "aborted" =>
                       /\ st.raised_in = "format_hanzi"
                       /\ st.i < Len(st.notes)
                       /\ HasOddVariant(st.cedict, st.notes[st.i + 1])
                /\ (\A k \in 1..Len(st.notes) :
                        ~HasOddVariant(st.cedict, st.notes[k]))
                       => st.pc # "aborted"

\* A missing headword, then a manual note and a lookup that both give a card
C7_Witness ==
    /\ run[1].pc = "done"
    /\ run[1].notes = << <<<<"G">>>>,
                         <<<<"Q">>, <<"l","u",":","4">>, <<"y","o">>>>,
                         <<<<"H">>>> >>
    /\ Ids(run[1].deck) = <<<<"Q">>, <<"H">>>>
    /\ run[1].stdout = << <<"NEEDS DEFINITION:", <<"G">>>>, <<"created">> >>

\* Whether s is t or a beginning of t
IsPrefix(s, t) == Len(s) <= Len(t) /\ s = SubSeq(t, 1, Len(s))

\* C8 as stated: two runs on the same note list whose dicts have the same
\* headwords give the same sequence of first fields.
C8_Original ==
    (MakeDeckEnded(run[1]) /\ MakeDeckEnded(run[2])
        /\ DOMAIN run[1].cedict = DOMAIN run[2].cedict) =>
        Ids(run[1].deck) = Ids(run[2].deck)

\* C8 amended: the first field of every card is the headword of its note
\* and the guid is that of the headword; for two runs on the same note list
\* whose dicts have the same headwords, the sequences of first fields (and
\* of guids) are the same when both runs return their deck, and when the
\* assert of format_hanzi ends one of them early, the cards it had added
\* are a beginning of the other run's.
C8_IdentityIsHeadword ==
    /\ \A r \in Runs :
           InMakeDeck(run[r]) =>
               LET st == run[r]
                   emitting == Emitting(st.cedict, SubSeq(st.notes, 1, st.i))
               IN  /\ Len(st.deck) = Len(emitting)
                   /\ \A k \in 1..Len(st.deck) :
                          /\ st.deck[k].fields[1] = emitting[k][1]
                          /\ st.deck[k].guid = guid_for(emitting[k][1])
    /\ (MakeDeckEnded(run[1]) /\ MakeDeckEnded(run[2])
            /\ DOMAIN run[1].cedict = DOMAIN run[2].cedict) =>
           /\ (run[1].pc = "done" /\ run[2].pc = "done") =>
                  /\ Ids(run[1].deck) = Ids(run[2].deck)
                  /\ Guids(run[1].deck) = Guids(run[2].deck)
           /\ \/ IsPrefix(Ids(run[1].deck), Ids(run[2].deck))
              \/ IsPrefix(Ids(run[2].deck), Ids(run[1].deck))

\* Two runs that return decks whose cards differ, from dicts with the same
\* headwords and other variants, pronunciations and glosses
C8_Witness ==
    /\ run[1].pc = "done"
    /\ run[2].pc = "done"
    /\ DOMAIN run[1].cedict = DOMAIN run[2].cedict
    /\ run[1].cedict # run[2].cedict
    /\ run[1].deck # <<>>
    /\ run[1].deck # run[2].deck
    /\ Ids(run[1].deck) = Ids(run[2].deck)

\* The note lines of the text: after the first line, not blank, not
\* starting with "#"
NoteLinesOf(txt) ==
    LET lines == splitlines(txt)
    IN  IF lines = <<>> THEN <<>>
        ELSE SelectSeq(Tail(lines),
                       LAMBDA line : ~isspace(line) /\ line # <<>>
                                     /\ line[1] # "#")

Arity(line) == Cardinality({i \in 1..Len(line) : line[i] = "|"}) + 1

\* Some note line has neither one part nor three
HasOtherArity(txt) ==
    \E n \in 1..Len(NoteLinesOf(txt)) : Arity(NoteLinesOf(txt)[n]) \notin {1, 3}

\* The place among the note lines of the first that has neither one part
\* nor three
FirstOtherArity(txt) ==
    Min({n \in 1..Len(NoteLinesOf(txt)) : Arity(NoteLinesOf(txt)[n]) \notin {1, 3}})

\* The run has got past parse_text, or parse_text has raised
AfterParse(st) ==
    \/ st.pc \in {"build", "done"}
    \/ st.pc = "aborted" /\ st.raised_in # "load_cedict"

\* C10 as stated: with a note line of another arity than 1 or 3, parse_text
\* raises: the run is aborted there, with no card built and no package
\* written.
C10_Original ==
    \A r \in Runs :
        (HasOtherArity(text) /\ AfterParse(run[r])) =>
            /\ run[r].pc = "aborted"
            /\ run[r].raised_in = "parse_text"
            /\ run[r].deck = <<>>
            /\ run[r].apkg = <<>>

\* C10 amended: with a note line of another arity than 1 or 3 and a good
\* first line, parse_text does not raise and returns the line as a note;
\* make_deck handles the notes before it (cards, diagnostics) and then fails
\* its assert on that note, unless format_hanzi's assert failed before; the
\* run never returns a deck and never writes a package.
C10_OtherArityAbortsInMakeDeck ==
    \A r \in Runs :
        (HasOtherArity(text) /\ AfterParse(run[r])) =>
            LET st == run[r]
                bad == FirstOtherArity(text)
            IN  /\ st.pc # "done"
                /\ st.apkg = <<>>
                /\ st.raised_in = "parse_text" => parse_text_raises(text)
                /\ InMakeDeck(st) =>
                       /\ Len(st.notes) = Len(NoteLinesOf(text))
                       /\ Len(st.notes[bad]) \notin {1, 3}
                       /\ st.i < bad
                       /\ Len(st.deck) =
                              Len(Emitting(st.cedict, SubSeq(st.notes, 1, st.i)))
                       /\ st.raised_in = "make_deck" => st.i = bad - 1

\* A card was built from the first note, then the assert on len(note) failed
\* on a note of two parts
C10_Witness ==
    /\ HasOtherArity(text)
    /\ run[1].pc = "aborted"
    /\ run[1].raised_in = "make_deck"
    /\ run[1].notes = << <<<<"H">>>>, <<<<"H">>, <<"n","i","3">>>> >>
    /\ Len(run[1].deck) = 1
    /\ run[1].apkg = <<>>

====
